---------------------------- MODULE Spec2Model ----------------------------
(***************************************************************************)
(* Model of machine-control.c, the command line front end of BeagleG:      *)
(* flag parsing into a MachineControlConfig, the choice between file       *)
(* playback and the TCP service, and the calls made to the motion engine   *)
(* (gcode_machine_control_init / _from_stream / _exit).                    *)
(*                                                                         *)
(* C strings are sequences of one-character strings.  A float is a record  *)
(* [nan, v]: either NaN or the integer v.  The inputs used here are        *)
(* written with decimal digits, signs, blanks, "nan" and separator         *)
(* characters only ('.', 'e' and "0x" do not occur in a number), so every  *)
(* finite value that strtod() produces is an integer.                      *)
(***************************************************************************)
EXTENDS Integers, Sequences, FiniteSets, TLC

(***************************************************************************)
(* Bounds of the model.                                                    *)
(***************************************************************************)
MaxLen == 5        \* longest input string given to parse_float_array alone
MaxCount == 3      \* largest capacity given to parse_float_array alone
MaxFlags == 2      \* options on one command line
MaxRounds == 2     \* open + process rounds of file playback
MaxSessions == 2   \* connections accepted by the server

(***************************************************************************)
(* Floats.                                                                 *)
(***************************************************************************)
Num(n) == [nan |-> FALSE, v |-> n]
NaN == [nan |-> TRUE, v |-> 0]

\* f <= 0 in C: false when f is NaN.
FloatLeqZero(f) == (~f.nan) /\ f.v <= 0
\* f > 0 in C: false when f is NaN.
FloatGtZero(f) == (~f.nan) /\ f.v > 0

(***************************************************************************)
(* Compiled-in defaults, in the sequence of enum GCodeParserAxes.  The     *)
(* initializers list seven values; further elements, if any, are zero.     *)
(***************************************************************************)
GCODE_NUM_AXES == 7

Axes == 1..GCODE_NUM_AXES

HOME_POS_NONE == 0
HOME_POS_ORIGIN == 1
HOME_POS_END_OF_RANGE == 2

Filled(initializers) ==
    [i \in Axes |-> IF i <= Len(initializers) THEN initializers[i] ELSE 0]

FloatArray(initializers) == [i \in Axes |-> Num(Filled(initializers)[i])]

kMaxFeedrate == FloatArray(<<200, 200, 90, 10, 1, 0, 0>>)
kDefaultAccel == FloatArray(<<4000, 4000, 1000, 10000, 1, 0, 0>>)
kStepsPerMM == FloatArray(<<160, 160, 160, 40, 1, 0, 0>>)
kMoveRange == FloatArray(<<100, 100, 100, -1, -1, -1, -1>>)
kHomePos ==
    Filled(<<HOME_POS_ORIGIN, HOME_POS_ORIGIN, HOME_POS_ORIGIN,
             HOME_POS_NONE, HOME_POS_NONE, HOME_POS_NONE, HOME_POS_NONE>>)
kAxisMapping == <<"X", "Y", "Z", "E", "A">>

(***************************************************************************)
(* libc conversions, on the characters the inputs are written with.        *)
(***************************************************************************)
Digits == {"0", "1", "2", "3", "4", "5", "6", "7", "8", "9"}

DigitVal(c) ==
    CASE c = "0" -> 0 [] c = "1" -> 1 [] c = "2" -> 2 [] c = "3" -> 3
      [] c = "4" -> 4 [] c = "5" -> 5 [] c = "6" -> 6 [] c = "7" -> 7
      [] c = "8" -> 8 [] c = "9" -> 9

\* Index of the first character at or after p that is not white space.
RECURSIVE SkipSpace(_, _)
SkipSpace(s, p) ==
    IF p <= Len(s) /\ s[p] = " " THEN SkipSpace(s, p + 1) ELSE p

\* Index just after the run of decimal digits that starts at p.
RECURSIVE DigitsEnd(_, _)
DigitsEnd(s, p) ==
    IF p <= Len(s) /\ s[p] \in Digits THEN DigitsEnd(s, p + 1) ELSE p

\* Value of the decimal digits s[p..q-1], continuing from acc.
RECURSIVE DigitsValue(_, _, _, _)
DigitsValue(s, p, q, acc) ==
    IF p >= q THEN acc ELSE DigitsValue(s, p + 1, q, 10 * acc + DigitVal(s[p]))

IsNanAt(s, p) ==
    /\ p + 2 <= Len(s)
    /\ s[p] \in {"n", "N"}
    /\ s[p + 1] \in {"a", "A"}
    /\ s[p + 2] \in {"n", "N"}

\* strtod(s, &end): val is the result, end the number of characters of s
\* before *end.  end = 0 is "end == input": no conversion was performed and
\* the result is 0.
strtod(s) ==
    LET p == SkipSpace(s, 1)
        signed == p <= Len(s) /\ s[p] \in {"-", "+"}
        neg == p <= Len(s) /\ s[p] = "-"
        q == IF signed THEN p + 1 ELSE p
        d == DigitsEnd(s, q)
        mag == DigitsValue(s, q, d, 0)
    IN  IF d > q
          THEN [val |-> Num(IF neg THEN 0 - mag ELSE mag), end |-> d - 1]
          ELSE IF IsNanAt(s, q)
                 THEN [val |-> NaN, end |-> q + 2]
                 ELSE [val |-> Num(0), end |-> 0]

\* atof(s) is strtod(s, NULL).
atof(s) == strtod(s).val

\* atoi(s): optional white space and sign, then decimal digits; 0 if none.
atoi(s) ==
    LET p == SkipSpace(s, 1)
        signed == p <= Len(s) /\ s[p] \in {"-", "+"}
        neg == p <= Len(s) /\ s[p] = "-"
        q == IF signed THEN p + 1 ELSE p
        d == DigitsEnd(s, q)
        mag == DigitsValue(s, q, d, 0)
    IN  IF neg THEN 0 - mag ELSE mag

(***************************************************************************)
(* parse_float_array(input, result, count).  ret is the returned count and *)
(* result the array as the call leaves it.  Iteration i of the C loop      *)
(* writes result[i], which is element i + 1 here.                          *)
(***************************************************************************)
\* A parse error that reports the numbers converted before it.
ParseErrorCount_Partial(i) == i

\* Line 184: the value returned when iteration i finds no number.
ParseErrorCount(i) == 0

\* The next token taken to start at the separator itself.
NextInput_NoSkip(input, end) == SubSeq(input, end + 1, Len(input))

\* Line 186: input = end + 1, where end is the number of characters converted.
NextInput(input, end) == SubSeq(input, end + 2, Len(input))

\* The loop with result[i] written only after the error check.
RECURSIVE ParseLoop_CheckBeforeWrite(_, _, _, _)
ParseLoop_CheckBeforeWrite(input, result, count, i) ==
    IF i >= count
      THEN [ret |-> count, result |-> result]
      ELSE LET r == strtod(input)
               written == [result EXCEPT ![i + 1] = r.val]
           IN  IF r.end = 0
                 THEN [ret |-> 0, result |-> result]
                 ELSE IF r.end = Len(input)
                        THEN [ret |-> i + 1, result |-> written]
                        ELSE ParseLoop_CheckBeforeWrite(
                                 SubSeq(input, r.end + 2, Len(input)),
                                 written, count, i + 1)

RECURSIVE ParseLoop(_, _, _, _)
ParseLoop(input, result, count, i) ==
    IF i >= count
      THEN [ret |-> count, result |-> result]
      ELSE LET r == strtod(input)
               written == [result EXCEPT ![i + 1] = r.val]
           IN  IF r.end = 0
                 THEN [ret |-> ParseErrorCount(i), result |-> written]
                 ELSE IF r.end = Len(input)
                        THEN [ret |-> i + 1, result |-> written]
                        ELSE ParseLoop(NextInput(input, r.end), written,
                                       count, i + 1)

\* The destination cleared before the numbers are stored.
parse_float_array_Clearing(input, result, count) ==
    ParseLoop(input, [i \in DOMAIN result |-> Num(0)], count, 0)

parse_float_array(input, result, count) == ParseLoop(input, result, count, 0)

(***************************************************************************)
(* inet_pton(AF_INET, s, ...): 1 for a dotted quad of four decimal numbers *)
(* 0..255 without leading zeros, else 0.                                   *)
(***************************************************************************)
RECURSIVE DottedQuad(_, _, _)
DottedQuad(s, p, octet) ==
    LET d == DigitsEnd(s, p)
        okOctet == /\ d > p
                   /\ d - p <= 3
                   /\ (d - p > 1 => s[p] # "0")
                   /\ DigitsValue(s, p, d, 0) <= 255
    IN  IF ~okOctet THEN FALSE
        ELSE IF octet = 4 THEN d = Len(s) + 1
        ELSE d <= Len(s) /\ s[d] = "." /\ DottedQuad(s, d + 1, octet + 1)

inet_pton(s) == IF DottedQuad(s, 1, 1) THEN 1 ELSE 0

(***************************************************************************)
(* (enum HomeType) f.  A float outside the range of int, NaN included, has *)
(* no defined conversion: the hardware conversion yields 0 (ARM) or the    *)
(* "integer indefinite" value (x86).                                       *)
(***************************************************************************)
INT_MIN == -2147483647 - 1
HomeTypeCast(f) == IF f.nan THEN {0, INT_MIN} ELSE {f.v}

(***************************************************************************)
(* Inputs.                                                                 *)
(***************************************************************************)
NULL == <<"NULL">>                           \* the null pointer, as a string

\* Arguments of -m, -a, -r, --steps-mm and --home-pos.
ListArgs == { <<"2">>, <<"1", ",", "2">>, <<"1", ",", "x">>, <<"x">> }
\* Arguments of -f.
FactorArgs == { <<"2">>, <<"0">>, <<"-", "1">>, <<"x">>, <<"n", "a", "n">> }
\* Arguments of -p.
PortArgs == { <<"0">>, <<"-", "4">>, <<"4", "0", "0", "0">>,
              <<"6", "5", "5", "3", "6">> }
\* Arguments of -b.
BindArgs == { <<"1", ".", "2", ".", "3", ".", "4">>, <<"1", ".", "2", ".", "3">> }
\* Arguments of --axis-mapping.
MappingArgs == { <<"X", "_", "Y">> }
\* Results of gcode_machine_control_from_stream().
EngineResults == {0, 1, 2}
\* Results of gcode_machine_control_init().
InitResults == {0, 1}

STDERR_FILENO == [kind |-> "stderr", id |-> 2]
NoFd == [kind |-> "none", id |-> 0]
InvalidFd == [kind |-> "invalid", id |-> -1]
FileFd(n) == [kind |-> "file", id |-> n]
ConnFd(n) == [kind |-> "conn", id |-> n]

(***************************************************************************)
(* State.                                                                  *)
(***************************************************************************)
VARIABLES
    pc,              \* position in main() and the runner it called
    nflags,          \* options returned by getopt_long() so far
    config,          \* struct MachineControlConfig config
    listen_port,     \* int listen_port
    do_file_repeat,  \* char do_file_repeat
    bind_addr,       \* char *bind_addr
    has_filename,    \* const char has_filename, -1 before line 292
    ret,             \* int ret
    exit_code,       \* value returned from main(), -1 while it runs
    usage_msg,       \* the msg usage() was called with, "" before
    runner,          \* the runner main() called: "none", "file" or "server"
    engine,          \* "uninit", "ready" or "exited"
    init_calls,      \* calls of gcode_machine_control_init()
    exit_calls,      \* calls of gcode_machine_control_exit()
    stream_log,      \* calls of gcode_machine_control_from_stream()
    fd,              \* send_file_to_machine: int fd
    opens,           \* send_file_to_machine: calls of open()
    sock,            \* run_server: socket s
    accepts,         \* run_server: calls of accept()
    connection,      \* run_server: int connection
    process_result,  \* run_server: int process_result
    pf_input,        \* parse_float_array alone: input
    pf_count,        \* parse_float_array alone: count
    pf_before,       \* parse_float_array alone: result[] before the call
    pf_result,       \* parse_float_array alone: result[] after the call
    pf_ret           \* parse_float_array alone: returned value, -1 before

mainVars == <<pc, nflags, config, listen_port, do_file_repeat, bind_addr,
              has_filename, ret, exit_code, usage_msg, runner>>
engineVars == <<engine, init_calls, exit_calls, stream_log>>
fileVars == <<fd, opens>>
serverVars == <<sock, accepts, connection, process_result>>
pfVars == <<pf_input, pf_count, pf_before, pf_result, pf_ret>>
vars == <<mainVars, engineVars, fileVars, serverVars, pfVars>>

\* The start of main(): lines 192-204 and 225-227.
MainInit ==
    /\ pc = "getopt"
    /\ nflags = 0
    /\ config = [steps_per_mm |-> kStepsPerMM,
                 home_switch |-> kHomePos,
                 move_range_mm |-> kMoveRange,
                 max_feedrate |-> kMaxFeedrate,
                 acceleration |-> kDefaultAccel,
                 speed_factor |-> Num(1),
                 dry_run |-> 0,
                 debug_print |-> 0,
                 synchronous |-> 0,
                 axis_mapping |-> kAxisMapping]
    /\ listen_port = -1
    /\ do_file_repeat = 0
    /\ bind_addr = NULL
    /\ has_filename = -1
    /\ ret = 0
    /\ exit_code = -1
    /\ usage_msg = ""
    /\ runner = "none"
    /\ engine = "uninit"
    /\ init_calls = 0
    /\ exit_calls = 0
    /\ stream_log = << >>
    /\ fd = NoFd
    /\ opens = 0
    /\ sock = "none"
    /\ accepts = 0
    /\ connection = NoFd
    /\ process_result = 0

PfIdle ==
    /\ pf_input = << >>
    /\ pf_count = 0
    /\ pf_before = kMaxFeedrate
    /\ pf_result = kMaxFeedrate
    /\ pf_ret = -1

Init == MainInit /\ PfIdle

(***************************************************************************)
(* main(): the option loop.                                                *)
(***************************************************************************)
\* return usage(argv[0], msg);
Usage(msg) ==
    /\ usage_msg' = msg
    /\ exit_code' = 1
    /\ pc' = "done"

NextOption ==
    /\ nflags' = nflags + 1
    /\ UNCHANGED <<pc, exit_code, usage_msg>>

InOptionLoop == pc = "getopt" /\ nflags < MaxFlags

OptionFrame ==
    UNCHANGED <<has_filename, ret, runner, engineVars, fileVars, serverVars, pfVars>>

\* case 'f'
OptSpeedFactor(optarg) ==
    /\ InOptionLoop
    /\ config' = [config EXCEPT !.speed_factor = atof(optarg)]
    /\ IF FloatLeqZero(config'.speed_factor)
         THEN Usage("Speedfactor cannot be <= 0") /\ UNCHANGED nflags
         ELSE NextOption
    /\ UNCHANGED <<listen_port, do_file_repeat, bind_addr>>
    /\ OptionFrame

\* cases 'm', 'a', SET_STEPS_MM and 'r': parse into the field itself.
OptFloatArray(field, msg, optarg) ==
    /\ InOptionLoop
    /\ LET parsed == parse_float_array(optarg, config[field], GCODE_NUM_AXES)
       IN  /\ config' = [config EXCEPT ![field] = parsed.result]
           /\ IF parsed.ret = 0
                THEN Usage(msg) /\ UNCHANGED nflags
                ELSE NextOption
    /\ UNCHANGED <<listen_port, do_file_repeat, bind_addr>>
    /\ OptionFrame

OptMaxFeedrate(optarg) ==
    OptFloatArray("max_feedrate", "max-feedrate missing.", optarg)
OptAccel(optarg) ==
    OptFloatArray("acceleration", "Acceleration missing.", optarg)
OptStepsMM(optarg) ==
    OptFloatArray("steps_per_mm", "steps/mm failed to parse.", optarg)
OptRange(optarg) ==
    OptFloatArray("move_range_mm", "Failed to parse ranges.", optarg)

\* case SET_MOTOR_MAPPING
OptMotorMapping(optarg) ==
    /\ InOptionLoop
    /\ config' = [config EXCEPT !.axis_mapping = optarg]
    /\ NextOption
    /\ UNCHANGED <<listen_port, do_file_repeat, bind_addr>>
    /\ OptionFrame

\* case SET_HOME_POS: parse into a zeroed tmp[], then convert every element.
OptHomePos(optarg) ==
    /\ InOptionLoop
    /\ LET tmp == [i \in Axes |-> Num(0)]
           parsed == parse_float_array(optarg, tmp, GCODE_NUM_AXES)
       IN  IF parsed.ret = 0
             THEN Usage("Failed to parse home switch.")
                  /\ UNCHANGED <<nflags, config>>
             ELSE /\ \E hs \in [Axes -> UNION {HomeTypeCast(parsed.result[i]) : i \in Axes}] :
                       /\ \A i \in Axes : hs[i] \in HomeTypeCast(parsed.result[i])
                       /\ config' = [config EXCEPT !.home_switch = hs]
                  /\ NextOption
    /\ UNCHANGED <<listen_port, do_file_repeat, bind_addr>>
    /\ OptionFrame

\* cases 'n', 'P' and 'S'
OptSwitch(field) ==
    /\ InOptionLoop
    /\ config' = [config EXCEPT ![field] = 1]
    /\ NextOption
    /\ UNCHANGED <<listen_port, do_file_repeat, bind_addr>>
    /\ OptionFrame

OptDryRun == OptSwitch("dry_run")
OptDebugPrint == OptSwitch("debug_print")
OptSynchronous == OptSwitch("synchronous")

\* case 'R'
OptRepeat ==
    /\ InOptionLoop
    /\ do_file_repeat' = 1
    /\ NextOption
    /\ UNCHANGED <<config, listen_port, bind_addr>>
    /\ OptionFrame

\* case 'p'
OptPort(optarg) ==
    /\ InOptionLoop
    /\ listen_port' = atoi(optarg)
    /\ NextOption
    /\ UNCHANGED <<config, do_file_repeat, bind_addr>>
    /\ OptionFrame

\* case 'b'
OptBindAddr(optarg) ==
    /\ InOptionLoop
    /\ bind_addr' = optarg
    /\ NextOption
    /\ UNCHANGED <<config, listen_port, do_file_repeat>>
    /\ OptionFrame

\* default: an option getopt_long() does not know, or one without its argument.
OptUnknown ==
    /\ InOptionLoop
    /\ Usage("Unknown flag")
    /\ UNCHANGED <<nflags, config, listen_port, do_file_repeat, bind_addr>>
    /\ OptionFrame

\* getopt_long() returns -1; line 292.
EndOfOptions(filename_given) ==
    /\ pc = "getopt"
    /\ has_filename' = IF filename_given THEN 1 ELSE 0
    /\ pc' = "dispatch"
    /\ UNCHANGED <<nflags, config, listen_port, do_file_repeat, bind_addr,
                   ret, exit_code, usage_msg, runner>>
    /\ UNCHANGED <<engineVars, fileVars, serverVars, pfVars>>

(***************************************************************************)
(* main(): after the option loop.                                          *)
(***************************************************************************)
\* Port 0 taken as a port.
PortGiven_NonNegative == listen_port >= 0

\* The operand of the exclusive-or at line 293.
PortGiven == listen_port > 0

\* Only "neither given" is refused.
NotExactlyOneMode_OnlyNeither == has_filename = 0 /\ ~PortGiven

\* Line 293: ! (has_filename ^ (listen_port > 0))
NotExactlyOneMode == (has_filename # 0) = PortGiven

\* The repeat check left out.
RepeatWithoutFile_Unchecked == FALSE

\* Line 296: !has_filename && do_file_repeat
RepeatWithoutFile == has_filename = 0 /\ do_file_repeat # 0

\* Lines 293-298.
Dispatch ==
    /\ pc = "dispatch"
    /\ IF NotExactlyOneMode
         THEN Usage("Choose one: <gcode-filename> or --port <port>.")
         ELSE IF RepeatWithoutFile
                THEN Usage("-R (repeat) only makes sense with a filename.")
                ELSE pc' = "init" /\ UNCHANGED <<exit_code, usage_msg>>
    /\ UNCHANGED <<nflags, config, listen_port, do_file_repeat, bind_addr,
                   has_filename, ret, runner>>
    /\ UNCHANGED <<engineVars, fileVars, serverVars, pfVars>>

\* The result of gcode_machine_control_init() not looked at.
InitFailed_Ignored(status) == FALSE

\* Line 300: gcode_machine_control_init(&config) != 0
InitFailed(status) == status # 0

\* Lines 300-310: gcode_machine_control_init(&config), then the runner.
EngineInit(status) ==
    /\ pc = "init"
    /\ init_calls' = init_calls + 1
    /\ engine' = IF status = 0 THEN "ready" ELSE "uninit"
    /\ IF InitFailed(status)
         THEN /\ exit_code' = 1
              /\ pc' = "done"
              /\ UNCHANGED runner
         ELSE /\ runner' = IF has_filename # 0 THEN "file" ELSE "server"
              /\ pc' = IF has_filename # 0 THEN "file_open" ELSE "srv_socket"
              /\ UNCHANGED exit_code
    /\ UNCHANGED <<nflags, config, listen_port, do_file_repeat, bind_addr,
                   has_filename, ret, usage_msg, exit_calls, stream_log>>
    /\ UNCHANGED <<fileVars, serverVars, pfVars>>

\* Lines 312-314: gcode_machine_control_exit(); free(bind_addr); return ret;
MainExit ==
    /\ pc = "main_exit"
    /\ exit_calls' = exit_calls + 1
    /\ engine' = "exited"
    /\ exit_code' = ret
    /\ pc' = "done"
    /\ UNCHANGED <<nflags, config, listen_port, do_file_repeat, bind_addr,
                   has_filename, ret, usage_msg, runner, init_calls,
                   stream_log>>
    /\ UNCHANGED <<fileVars, serverVars, pfVars>>

\* A runner returns value to main(), which stores it in ret.
RunnerReturns(value) ==
    /\ ret' = value
    /\ pc' = "main_exit"

RunnerFrame ==
    UNCHANGED <<nflags, config, listen_port, do_file_repeat, bind_addr,
                has_filename, exit_code, usage_msg, runner, engine,
                init_calls, exit_calls, pfVars>>

\* The engine's output sent to stderr whatever output_fd is.
StreamCall_OutputToStderr(input_fd, output_fd, result) ==
    stream_log' = Append(stream_log, [input |-> input_fd,
                                      output |-> [kind |-> "stderr", id |-> 2],
                                      result |-> result])

\* One call of gcode_machine_control_from_stream(input_fd, output_fd).
StreamCall(input_fd, output_fd, result) ==
    stream_log' = Append(stream_log, [input |-> input_fd, output |-> output_fd,
                                      result |-> result])

(***************************************************************************)
(* send_file_to_machine(gcode_filename, do_loop)                           *)
(***************************************************************************)
\* Line 113: int fd = open(gcode_filename, O_RDONLY);
FileOpen(ok) ==
    /\ pc = "file_open"
    /\ opens < MaxRounds
    /\ opens' = opens + 1
    /\ fd' = IF ok THEN FileFd(opens + 1) ELSE InvalidFd
    /\ pc' = "file_stream"
    /\ UNCHANGED <<ret, stream_log, serverVars>>
    /\ RunnerFrame

\* Only a negative result taken as a failure.
StreamFailed_Negative(result) == result < 0

\* Line 114: gcode_machine_control_from_stream(fd, STDERR_FILENO) != 0
StreamFailed(result) == result # 0

\* The loop left after one round whatever do_loop is.
LoopAgain_Never == FALSE

\* Line 116: while (do_loop)
LoopAgain == do_file_repeat # 0

\* Lines 114-117: the engine call and the loop condition.
FileStream(result) ==
    /\ pc = "file_stream"
    /\ StreamCall(fd, STDERR_FILENO, result)
    /\ IF StreamFailed(result)
         THEN RunnerReturns(1)
         ELSE IF LoopAgain
                THEN pc' = "file_open" /\ UNCHANGED ret
                ELSE RunnerReturns(0)
    /\ UNCHANGED <<fileVars, serverVars>>
    /\ RunnerFrame

(***************************************************************************)
(* run_server(bind_addr, port)                                             *)
(***************************************************************************)
\* Lines 124-132: the port check and socket().
SrvSocket(ok) ==
    /\ pc = "srv_socket"
    /\ IF listen_port > 65535
         THEN RunnerReturns(1) /\ UNCHANGED sock     \* "Invalid port"
         ELSE IF ~ok
                THEN RunnerReturns(1) /\ UNCHANGED sock   \* "creating socket"
                ELSE sock' = "open" /\ pc' = "srv_resolve" /\ UNCHANGED ret
    /\ UNCHANGED <<stream_log, fileVars, accepts, connection, process_result>>
    /\ RunnerFrame

\* Lines 134-141: the bind address.
SrvResolve ==
    /\ pc = "srv_resolve"
    /\ IF bind_addr # NULL /\ inet_pton(bind_addr) = 0
         THEN RunnerReturns(1)                  \* "Invalid bind IP address"
         ELSE pc' = "srv_bind" /\ UNCHANGED ret
    /\ UNCHANGED <<stream_log, fileVars, serverVars>>
    /\ RunnerFrame

\* Lines 142-153: bind(), then signal() and listen().
SrvBind(ok) ==
    /\ pc = "srv_bind"
    /\ IF ~ok
         THEN RunnerReturns(1) /\ UNCHANGED sock         \* "trouble binding"
         ELSE sock' = "listening" /\ pc' = "srv_accept" /\ UNCHANGED ret
    /\ UNCHANGED <<stream_log, fileVars, accepts, connection, process_result>>
    /\ RunnerFrame

\* The result of accept() not looked at.
AcceptFailed_Unchecked(conn) == FALSE

\* Line 160: connection < 0
AcceptFailed(conn) == conn = InvalidFd

\* Lines 157-163: accept().
SrvAccept(ok) ==
    /\ pc = "srv_accept"
    /\ accepts < MaxSessions
    /\ accepts' = accepts + 1
    /\ connection' = IF ok THEN ConnFd(accepts + 1) ELSE InvalidFd
    /\ IF AcceptFailed(connection')
         THEN RunnerReturns(1)                                  \* "accept"
         ELSE pc' = "srv_serve" /\ UNCHANGED ret
    /\ UNCHANGED <<stream_log, fileVars, sock, process_result>>
    /\ RunnerFrame

\* The accept loop kept running whatever the result.
ServeAgain_Always(result) == TRUE

\* The accept loop left after the first session.
ServeAgain_Never(result) == FALSE

\* Line 170: while (process_result == 0)
ServeAgain(result) == result = 0

\* Lines 164-170: the engine call and the loop condition.
SrvServe(result) ==
    /\ pc = "srv_serve"
    /\ StreamCall(connection, connection, result)
    /\ process_result' = result
    /\ pc' = IF ServeAgain(result) THEN "srv_accept" ELSE "srv_close"
    /\ UNCHANGED <<ret, fileVars, sock, accepts, connection>>
    /\ RunnerFrame

\* Lines 172-175: close(s); return 0;
SrvClose ==
    /\ pc = "srv_close"
    /\ sock' = "closed"
    /\ RunnerReturns(0)
    /\ UNCHANGED <<stream_log, fileVars, accepts, connection, process_result>>
    /\ RunnerFrame

(***************************************************************************)
(* The program.                                                            *)
(***************************************************************************)
Next ==
    \/ \E optarg \in FactorArgs : OptSpeedFactor(optarg)
    \/ \E optarg \in ListArgs : OptMaxFeedrate(optarg)
    \/ \E optarg \in ListArgs : OptAccel(optarg)
    \/ \E optarg \in ListArgs : OptStepsMM(optarg)
    \/ \E optarg \in ListArgs : OptRange(optarg)
    \/ \E optarg \in ListArgs : OptHomePos(optarg)
    \/ \E optarg \in MappingArgs : OptMotorMapping(optarg)
    \/ OptDryRun
    \/ OptDebugPrint
    \/ OptSynchronous
    \/ OptRepeat
    \/ \E optarg \in PortArgs : OptPort(optarg)
    \/ \E optarg \in BindArgs : OptBindAddr(optarg)
    \/ OptUnknown
    \/ \E filename_given \in BOOLEAN : EndOfOptions(filename_given)
    \/ Dispatch
    \/ \E status \in InitResults : EngineInit(status)
    \/ \E ok \in BOOLEAN : FileOpen(ok)
    \/ \E result \in EngineResults : FileStream(result)
    \/ \E ok \in BOOLEAN : SrvSocket(ok)
    \/ SrvResolve
    \/ \E ok \in BOOLEAN : SrvBind(ok)
    \/ \E ok \in BOOLEAN : SrvAccept(ok)
    \/ \E result \in EngineResults : SrvServe(result)
    \/ SrvClose
    \/ MainExit

Spec == Init /\ [][Next]_vars

(***************************************************************************)
(* parse_float_array() alone, on every string of up to MaxLen characters   *)
(* and every capacity up to MaxCount.                                      *)
(***************************************************************************)
Alphabet == {"1", "2", "3", "-", ",", "x"}
Inputs ==
    UNION {[1..n -> Alphabet] : n \in 0..MaxLen}
      \cup { <<"n", "a", "n">>, <<"1", ",", "n", "a", "n">>,
              <<" ", "1", ",", " ", "2">>, <<"+", "1", ";", "2">> }
Preseeds == {kMaxFeedrate, kDefaultAccel}

ParseInit ==
    /\ MainInit
    /\ pf_input \in Inputs
    /\ pf_count \in 0..MaxCount
    /\ pf_before \in Preseeds
    /\ pf_result = pf_before
    /\ pf_ret = -1

ParseCall ==
    /\ pf_ret = -1
    /\ LET parsed == parse_float_array(pf_input, pf_before, pf_count)
       IN  /\ pf_result' = parsed.result
           /\ pf_ret' = parsed.ret
    /\ UNCHANGED <<pf_input, pf_count, pf_before>>
    /\ UNCHANGED <<mainVars, engineVars, fileVars, serverVars>>

ParseNext == ParseCall

ParseSpec == ParseInit /\ [][ParseNext]_vars

(***************************************************************************)
(* Properties of main()'s mode selection.                                  *)
(***************************************************************************)
\* Line 292 has run: the option loop ended without a usage error.
FlagsParsed == has_filename # -1

\* The checks of lines 293-298 have run as well.
Dispatched == FlagsParsed /\ pc # "dispatch"

UsageError == exit_code = 1 /\ usage_msg # "" /\ pc = "done"

\* C1: a runner is entered only when exactly one of filename and port
\* (listen_port > 0) is present; with both or neither the process ends with
\* a usage error, exit code 1, and no runner is entered.
C1_ExactlyOneMode ==
    /\ runner # "none" => (has_filename = 1) # PortGiven
    /\ (Dispatched /\ (has_filename = 1) = PortGiven)
         => (UsageError /\ runner = "none" /\ sock = "none" /\ opens = 0)

C1_Witness ==
    /\ Dispatched
    /\ has_filename = 1
    /\ PortGiven
    /\ UsageError

\* C9: -R with a port and no filename is a usage error: exit code 1, and
\* run_server is never entered.
C9_RepeatNeedsFile ==
    (Dispatched /\ do_file_repeat # 0 /\ has_filename = 0 /\ PortGiven)
      => (UsageError /\ runner = "none" /\ sock = "none")

C9_Witness ==
    /\ Dispatched
    /\ do_file_repeat # 0
    /\ has_filename = 0
    /\ PortGiven
    /\ usage_msg = "-R (repeat) only makes sense with a filename."

(***************************************************************************)
(* Properties of run_server().                                             *)
(***************************************************************************)
Results == [i \in DOMAIN stream_log |-> stream_log[i].result]

SessionFailed ==
    runner = "server" /\ \E i \in DOMAIN stream_log : stream_log[i].result # 0

\* C2: once a session's engine call has returned non-zero, every further
\* step leaves the listening socket closed and makes no accept() call.
C2_NoAcceptAfterFailure ==
    [][SessionFailed => (sock' = "closed" /\ accepts' = accepts
                          /\ stream_log' = stream_log)]_vars

C2_Witness ==
    /\ SessionFailed
    /\ Len(stream_log) = 2
    /\ stream_log[1].result = 0
    /\ sock = "closed"
    /\ pc = "done"

\* C3: a session whose engine call returns zero is followed by accept() on
\* the same listening socket, which is still open.
C3_ZeroResultAcceptsAgain ==
    /\ [][(pc = "srv_serve" /\ stream_log'[Len(stream_log')].result = 0)
            => (pc' = "srv_accept" /\ sock' = "listening")]_vars
    /\ [](pc = "srv_accept" =>
            /\ sock = "listening"
            /\ accepts = Len(stream_log)
            /\ \A i \in DOMAIN stream_log : stream_log[i].result = 0
            /\ (accepts < MaxSessions => ENABLED SrvAccept(TRUE)))

C3_Witness ==
    /\ pc = "srv_serve"
    /\ accepts = 2
    /\ Len(stream_log) = 1
    /\ stream_log[1].result = 0
    /\ connection = ConnFd(2)

\* C4: in network mode a non-zero engine result makes the process exit 1.
C4_ServerFailureExitsOne ==
    (SessionFailed /\ pc = "done") => exit_code = 1

(***************************************************************************)
(* Properties of send_file_to_machine().                                   *)
(***************************************************************************)
FileReturned == runner = "file" /\ pc \in {"main_exit", "done"}

\* C5: without repeat the engine is called exactly once whatever it returns;
\* with repeat and only zero results the function does not return, and the
\* n-th engine call reads the descriptor of the n-th open().
C5_OnceOrForever ==
    runner = "file" =>
      /\ opens = Len(stream_log) + (IF pc = "file_stream" THEN 1 ELSE 0)
      /\ \A i \in DOMAIN stream_log :
            /\ stream_log[i].input \in {FileFd(i), InvalidFd}
            /\ stream_log[i].output = STDERR_FILENO
      /\ pc = "file_stream" => fd \in {FileFd(opens), InvalidFd}
      /\ do_file_repeat = 0 => Len(stream_log) <= 1
      /\ (do_file_repeat = 0 /\ FileReturned) => Len(stream_log) = 1
      /\ (do_file_repeat # 0 /\ \A i \in DOMAIN stream_log : stream_log[i].result = 0)
            => ~FileReturned

C5_Witness ==
    /\ runner = "file"
    /\ do_file_repeat # 0
    /\ pc = "file_open"
    /\ opens = 2
    /\ Len(stream_log) = 2

\* C6: in file mode the first non-zero engine result ends playback, with or
\* without repeat: no open() or engine call follows it, the function
\* returns 1 and the process exits 1.
C6_FirstFailureEndsPlayback ==
    (runner = "file" /\ \E i \in DOMAIN stream_log : stream_log[i].result # 0)
      => /\ FileReturned
         /\ ret = 1
         /\ opens = Len(stream_log)
         /\ \A i \in DOMAIN stream_log :
               stream_log[i].result # 0 <=> i = Len(stream_log)
         /\ pc = "done" => exit_code = 1

C6_Witness ==
    /\ runner = "file"
    /\ do_file_repeat # 0
    /\ Len(stream_log) = 2
    /\ stream_log[2].result # 0
    /\ pc = "done"
    /\ exit_code = 1

(***************************************************************************)
(* Properties of parse_float_array().                                      *)
(***************************************************************************)
\* s[p..] read as a list of decimal numbers, each an optional '-' and one
\* or more digits, with exactly one character that is no digit between two
\* numbers: ok tells whether it is such a list, vals are its numbers.
RECURSIVE NumberList(_, _)
NumberList(s, p) ==
    LET neg == p <= Len(s) /\ s[p] = "-"
        q == IF neg THEN p + 1 ELSE p
        d == DigitsEnd(s, q)
        v == IF neg THEN 0 - DigitsValue(s, q, d, 0) ELSE DigitsValue(s, q, d, 0)
    IN  IF d = q THEN [ok |-> FALSE, vals |-> << >>]
        ELSE IF d > Len(s) THEN [ok |-> TRUE, vals |-> <<v>>]
        ELSE LET rest == NumberList(s, d + 1)
             IN  [ok |-> rest.ok, vals |-> <<v>> \o rest.vals]

Min(a, b) == IF a <= b THEN a ELSE b

\* C7: for a list of k >= 1 well-formed numbers and capacity N the call
\* returns min(k, N), stores the first min(k, N) numbers in order and leaves
\* the other elements as they were before the call.
C7_ParsesMinOfTokensAndCapacity ==
    (pf_ret # -1 /\ NumberList(pf_input, 1).ok) =>
      LET vals == NumberList(pf_input, 1).vals
          m == Min(Len(vals), pf_count)
      IN  /\ pf_ret = m
          /\ \A i \in 1..m : pf_result[i] = Num(vals[i])
          /\ \A i \in Axes \ (1..m) : pf_result[i] = pf_before[i]

C7_Witness ==
    /\ pf_input = <<"1", ",", "2", ",", "3">>
    /\ pf_count = 2
    /\ pf_ret = 2
    /\ pf_result[3] = pf_before[3]

\* Whether one of the first n tokens of s, each taken after the number and
\* the one separator before it, has no numeric prefix.
RECURSIVE MalformedWithin(_, _)
MalformedWithin(s, n) ==
    IF n = 0 THEN FALSE
    ELSE LET e == strtod(s).end
         IN  IF e = 0 THEN TRUE
             ELSE IF e = Len(s) THEN FALSE
             ELSE MalformedWithin(SubSeq(s, e + 2, Len(s)), n - 1)

\* C8: the call returns 0 exactly when a token at a position below the
\* capacity has no numeric prefix, also after earlier positions were
\* parsed; no partial count is returned for such a list.
C8_MalformedTokenFailsWholly ==
    (pf_ret # -1 /\ pf_count > 0) =>
      (pf_ret = 0 <=> MalformedWithin(pf_input, pf_count))

C8_Witness ==
    /\ pf_input = <<"1", ",", "x", ",", "3">>
    /\ pf_count = 3
    /\ pf_ret = 0
    /\ pf_result[1] = Num(1)

(***************************************************************************)
(* Properties of the configuration.                                        *)
(***************************************************************************)
\* C10: once the option loop has ended without a usage error, speed_factor
\* is strictly positive.
C10_SpeedFactorPositive ==
    FlagsParsed => FloatGtZero(config.speed_factor)

(***************************************************************************)
(* Properties of run_server()'s descriptors and error returns.             *)
(***************************************************************************)
ServerReturned == runner = "server" /\ pc \in {"main_exit", "done"}

\* C11: run_server never returns while the listening socket it created is
\* still open.
C11_SocketClosedOnReturn ==
    ServerReturned => sock \in {"none", "closed"}

\* run_server returned from line 126, "Invalid port".
InvalidPortReported == ServerReturned /\ listen_port > 65535

\* run_server returned from line 140, "Invalid bind IP address": only this
\* return and the one after a failed bind() leave the socket open, and
\* bind() is not reached with such an address.
InvalidBindAddrReported ==
    /\ ServerReturned
    /\ sock = "open"
    /\ bind_addr # NULL
    /\ inet_pton(bind_addr) = 0

\* C14: after every usage error the process exits 1, the engine was never
\* initialized and no socket was created.
C14_UsageErrorHasNoSideEffects ==
    (usage_msg # "" \/ InvalidPortReported \/ InvalidBindAddrReported)
      => /\ init_calls = 0
         /\ sock = "none"
         /\ pc = "done" => exit_code = 1

(***************************************************************************)
(* Further properties of send_file_to_machine() and of the port.           *)
(***************************************************************************)
\* C17: the engine is never called with the descriptor of a failed open(),
\* and after a failed open() the process exits 1.
C17_FailedOpenIsFatal ==
    /\ \A i \in DOMAIN stream_log : stream_log[i].input # InvalidFd
    /\ (runner = "file" /\ fd = InvalidFd /\ pc = "done") => exit_code = 1

\* C20: a -p value of 0 or below counts as no port: with a filename the
\* file is played without a usage error, without one the process ends with
\* a usage error, and run_server is entered with a port of at least 1 only.
C20_PortPresentMeansPositive ==
    /\ runner = "server" => listen_port >= 1
    /\ (Dispatched /\ listen_port <= 0 /\ has_filename = 1)
         => (usage_msg = "" /\ runner # "server"
             /\ (pc # "init" => init_calls = 1))
    /\ (Dispatched /\ listen_port <= 0 /\ has_filename = 0)
         => (UsageError /\ runner = "none")

C20_Witness ==
    /\ listen_port = 0
    /\ runner = "file"
    /\ Len(stream_log) = 1
    /\ pc = "done"

(***************************************************************************)
(* Properties of the accept loop.                                          *)
(***************************************************************************)
\* C15: one connection is served at a time: accept() is called only when
\* every connection accepted before has been through its engine call, and
\* the n-th accepted connection is the input and the output of the n-th
\* engine call and of no other.
C15_OneSessionAtATime ==
    runner = "server" =>
      /\ \A i \in DOMAIN stream_log :
            /\ stream_log[i].input = ConnFd(i)
            /\ stream_log[i].output = ConnFd(i)
      /\ pc = "srv_accept" => accepts = Len(stream_log)
      /\ pc = "srv_serve" =>
            /\ connection = ConnFd(accepts)
            /\ Len(stream_log) = accepts - 1
      /\ Len(stream_log) <= accepts

C15_Witness ==
    /\ runner = "server"
    /\ Len(stream_log) = 2
    /\ stream_log[1].input = ConnFd(1)
    /\ stream_log[2].output = ConnFd(2)

AcceptHasFailed == runner = "server" /\ connection = InvalidFd

\* C16: a failed accept() ends the service: run_server returns 1 without
\* another accept() or engine call, and the process exits 1.
C16_AcceptFailureIsFatal ==
    /\ [](AcceptHasFailed =>
            /\ pc \in {"main_exit", "done"}
            /\ ret = 1
            /\ Len(stream_log) = accepts - 1
            /\ \A i \in DOMAIN stream_log : stream_log[i].input # InvalidFd
            /\ pc = "done" => exit_code = 1)
    /\ [][AcceptHasFailed =>
            (accepts' = accepts /\ stream_log' = stream_log)]_vars

C16_Witness ==
    /\ AcceptHasFailed
    /\ accepts = 2
    /\ Len(stream_log) = 1
    /\ pc = "done"
    /\ exit_code = 1

(***************************************************************************)
(* Properties of the engine's life cycle.                                  *)
(***************************************************************************)
\* C19: gcode_machine_control_init is called at most once, after the option
\* loop and the mode checks, and the configuration does not change after
\* it; the engine reads a stream only after init returned 0; exit is called
\* exactly once when a runner has returned, never otherwise, and no stream
\* call follows it; when init fails there is no stream call and no exit,
\* and the process exits 1.
C19_EngineLifecycle ==
    /\ [](/\ init_calls <= 1
          /\ exit_calls <= 1
          /\ init_calls = 1 => (Dispatched /\ usage_msg = "" /\ pc # "init")
          /\ pc \in {"getopt", "dispatch", "init"} => init_calls = 0
          /\ engine # "uninit" => init_calls = 1
          /\ Len(stream_log) > 0 => (engine # "uninit" /\ runner # "none")
          /\ runner # "none" => engine # "uninit"
          /\ exit_calls = 1 <=> (runner # "none" /\ pc = "done")
          /\ engine = "exited" <=> exit_calls = 1
          /\ (init_calls = 1 /\ engine = "uninit") =>
                /\ pc = "done"
                /\ exit_code = 1
                /\ runner = "none"
                /\ stream_log = << >>
                /\ exit_calls = 0)
    /\ [][init_calls = 1 => config' = config]_vars
    /\ [][engine = "exited" => stream_log' = stream_log]_vars

C19_Witness ==
    /\ init_calls = 1
    /\ exit_calls = 1
    /\ engine = "exited"
    /\ Len(stream_log) = 2
    /\ pc = "done"

(***************************************************************************)
(* Properties of the per-axis vectors.                                     *)
(***************************************************************************)
FloatFields == {"max_feedrate", "acceleration", "steps_per_mm", "move_range_mm"}

\* The option that sets the given float vector, with its argument.
FloatFlag(field, optarg) ==
    CASE field = "max_feedrate" -> OptMaxFeedrate(optarg)
      [] field = "acceleration" -> OptAccel(optarg)
      [] field = "steps_per_mm" -> OptStepsMM(optarg)
      [] field = "move_range_mm" -> OptRange(optarg)

\* C12: a float vector option that succeeds with a list of k < N numbers
\* stores them in positions 0..k-1 and leaves positions k..N-1, and every
\* other field of the configuration, as they were before the option.
C12_FloatFlagKeepsUnsetPositions ==
    [][\A field \in FloatFields : \A optarg \in ListArgs :
         (FloatFlag(field, optarg) /\ pc' = "getopt"
            /\ NumberList(optarg, 1).ok
            /\ Len(NumberList(optarg, 1).vals) < GCODE_NUM_AXES)
         => LET vals == NumberList(optarg, 1).vals
            IN  /\ \A i \in 1..Len(vals) : config'[field][i] = Num(vals[i])
                /\ \A i \in Axes \ (1..Len(vals)) :
                      config'[field][i] = config[field][i]
                /\ config' = [config EXCEPT ![field] = config'[field]]]_vars

C12_Witness ==
    /\ pc = "getopt"
    /\ nflags = 1
    /\ config.acceleration[1] = Num(1)
    /\ config.acceleration[2] = Num(2)
    /\ \A i \in Axes \ {1, 2} : config.acceleration[i] = kDefaultAccel[i]

\* C13: after --home-pos with a list of k < N numbers, home_switch[i] for
\* i >= k still is kHomePos[i].
C13_HomePosKeepsDefaults ==
    [][\A optarg \in ListArgs :
         (OptHomePos(optarg) /\ pc' = "getopt" /\ NumberList(optarg, 1).ok)
         => \A i \in Axes \ (1..Len(NumberList(optarg, 1).vals)) :
               config'.home_switch[i] = kHomePos[i]]_vars

(***************************************************************************)
(* parse_float_array() when the first token is no number.                  *)
(***************************************************************************)
FirstTokenMalformed == pf_ret # -1 /\ strtod(pf_input).end = 0

\* C18 as claimed: the call returns 0 and every position, position 0
\* included, holds the value it had before the call.
C18_FailureLeavesArrayUnmodified ==
    FirstTokenMalformed => (pf_ret = 0 /\ pf_result = pf_before)

\* C18 as the code has it: the call returns 0 and every position but
\* position 0 holds the value it had before; position 0 holds 0, the
\* result of the failed conversion, when the capacity is at least 1.
C18_FailureZeroesFirstPosition ==
    FirstTokenMalformed =>
      /\ pf_ret = 0
      /\ \A i \in Axes :
            pf_result[i] = IF i = 1 /\ pf_count > 0 THEN Num(0)
                                                    ELSE pf_before[i]

C18_Witness ==
    /\ pf_input = <<"x", ",", "2">>
    /\ pf_count = 3
    /\ pf_ret = 0
    /\ pf_before[1] # Num(0)
    /\ pf_result[1] = Num(0)
    /\ pf_result[2] = pf_before[2]

=============================================================================
